---------------------------- MODULE Spec2Model ----------------------------
(***************************************************************************)
(* HTML file renamer: the filename resolution pipeline of                  *)
(*   src/html_renamer/rename_html_files.py  (class-based, "C" below) and   *)
(*   src/rename_html_files.py               (procedural,  "P" below).      *)
(*                                                                         *)
(* A string is a sequence of one-character strings.  A directory is a      *)
(* function from file identities to the name the file currently bears      *)
(* (Gone once another file was renamed over it).  One loop iteration of a  *)
(* run is one action.                                                      *)
(***************************************************************************)
EXTENDS Integers, Sequences, FiniteSets, TLC

\* ------------------------------------------------------------------ bounds
NumFiles == 2        \* files in the directory
MaxTroubled == 1     \* files whose metadata or rename the system refuses
MaxLen == 4          \* longest sanitizer input explored on its own

\* ----------------------------------------------------------------- strings
\* values that are no string: each is a one-element sequence whose element
\* is not a character, so that it compares with strings and equals none
None == <<"None">>   \* Python's None
Gone == <<"Gone">>   \* a file that was replaced by a rename onto its name
StatError == -1      \* os.path.getctime raises for this file

INVALID_FILENAME_CHARS == {"\\", "/", ":", "*", "?", "\"", "<", ">", "|"}
SPACE_REPLACEMENT == "_"
Whitespace == {" ", "\t", "\n", "\r", "\f"}

HtmlExt == <<".", "h", "t", "m", "l">>

Digit == [d \in 0..9 |-> CASE d = 0 -> "0" [] d = 1 -> "1" [] d = 2 -> "2"
                           [] d = 3 -> "3" [] d = 4 -> "4" [] d = 5 -> "5"
                           [] d = 6 -> "6" [] d = 7 -> "7" [] d = 8 -> "8"
                           [] OTHER -> "9"]

RECURSIVE Str(_)
\* str(k) of a non-negative integer, as used by the f-strings
Str(k) == IF k < 10 THEN <<Digit[k]>> ELSE Str(k \div 10) \o <<Digit[k % 10]>>

Lower(c) == CASE c = "A" -> "a" [] c = "B" -> "b" [] c = "H" -> "h"
              [] c = "T" -> "t" [] c = "M" -> "m" [] c = "L" -> "l"
              [] OTHER -> c

\* filename.lower().endswith('.html')
IsHtmlName(n) ==
    /\ Len(n) >= Len(HtmlExt)
    /\ n # None /\ n # Gone
    /\ \A j \in 1..Len(HtmlExt) :
          Lower(n[Len(n) - Len(HtmlExt) + j]) = HtmlExt[j]

\* re.sub(INVALID_FILENAME_CHARS, '', s)
DeleteInvalid(s) == SelectSeq(s, LAMBDA c : c \notin INVALID_FILENAME_CHARS)

RECURSIVE SkipWs(_)
\* the rest of s after the greedy match of \s+ that starts at its head
SkipWs(s) == IF s # <<>> /\ Head(s) \in Whitespace THEN SkipWs(Tail(s)) ELSE s

RECURSIVE EachWs(_)
\* as if the pattern were \s: one underscore per whitespace character
EachWs(s) ==
    IF s = <<>> THEN <<>>
    ELSE IF Head(s) \in Whitespace
         THEN <<SPACE_REPLACEMENT>> \o EachWs(Tail(s))
         ELSE <<Head(s)>> \o EachWs(Tail(s))

RECURSIVE CollapseWs(_)
\* re.sub(r'\s+', SPACE_REPLACEMENT, s): leftmost greedy runs, one "_" each
CollapseWs(s) ==
    IF s = <<>> THEN <<>>
    ELSE IF Head(s) \in Whitespace
         THEN <<SPACE_REPLACEMENT>> \o CollapseWs(SkipWs(s))
         ELSE <<Head(s)>> \o CollapseWs(Tail(s))

\* FilenameSanitizer.sanitize / sanitize_filename
sanitize(filename) == CollapseWs(DeleteInvalid(filename))

RECURSIVE LStrip(_)
LStrip(s) == IF s # <<>> /\ Head(s) \in Whitespace THEN LStrip(Tail(s)) ELSE s

RECURSIVE RStrip(_)
RStrip(s) ==
    IF s # <<>> /\ s[Len(s)] \in Whitespace
    THEN RStrip(SubSeq(s, 1, Len(s) - 1)) ELSE s

\* str.strip() / get_text(strip=True) on a heading holding one text node
strip(s) == RStrip(LStrip(s))

\* os.path.splitext on a name without directory separators: split at the
\* last dot unless everything before that dot is dots
splitext(p) ==
    LET dots == {j \in 1..Len(p) : p[j] = "."}
        dotIndex == IF dots = {} THEN 0
                    ELSE CHOOSE j \in dots : \A k \in dots : k <= j
    IN  IF dotIndex > 0 /\ \E j \in 1..(dotIndex - 1) : p[j] # "."
        THEN <<SubSeq(p, 1, dotIndex - 1), SubSeq(p, dotIndex, Len(p))>>
        ELSE <<p, <<>> >>


\* ------------------------------------------------------- the environment
Files == 1..NumFiles
Times == 1..NumFiles

\* headings (text of the first <h1 class="panel__title">) found in files;
\* None: no such element, or the file cannot be read or parsed
Headings == {None, <<"?">>, <<" ", "A", "?", " ", "B">>, <<".">>}

\* names a file may bear before the run
PlainName(f) == <<"f">> \o Str(f) \o HtmlExt
NamePool == { <<"A", "_", "B">> \o HtmlExt,
              <<".">> \o HtmlExt,
              <<"1", ".", " ", "A", "_", "B">> \o HtmlExt }

VARIABLES
    heading,            \* [Files -> Headings]: content of each file
    ctime,              \* [Files -> Times]: creation time of each file
    stat_fails,         \* files on which os.path.getctime raises
    rename_fails,       \* files on which os.rename raises (locked, denied)
    posix,              \* os.rename replaces an existing target (else raises)
    add_index,          \* the "Add Index" option
    directory0,         \* the directory before the run
    \* class-based run
    pc, directory, sorted_files, pos, index,
    renamed_files, skipped_files, new_filenames_set, log,
    \* procedural run, on its own copy of the directory
    pcP, directoryP, html_filesP, posP, indexP,
    renamed_filesP, skipped_filesP, new_filenames,
    \* a sanitizer call on its own
    san_in, san_out

envVars == <<heading, ctime, stat_fails, rename_fails, posix, add_index, directory0>>
classVars == <<pc, directory, sorted_files, pos, index,
               renamed_files, skipped_files, new_filenames_set, log>>
procVars == <<pcP, directoryP, html_filesP, posP, indexP,
              renamed_filesP, skipped_filesP, new_filenames>>
sanVars == <<san_in, san_out>>
vars == <<envVars, classVars, procVars, sanVars>>

\* os.path.exists(os.path.join(directory, name))
exists(dir, name) == \E f \in Files : dir[f] = name

FileAt(dir, name) == CHOOSE f \in Files : dir[f] = name

\* os.listdir: the names present, in the order of the file identities
RECURSIVE listdirFrom(_, _)
listdirFrom(dir, f) ==
    IF f > NumFiles THEN <<>>
    ELSE (IF dir[f] = Gone THEN <<>> ELSE <<dir[f]>>) \o listdirFrom(dir, f + 1)
listdir(dir) == listdirFrom(dir, 1)

\* os.path.getctime(filepath)
getctime(dir, name) ==
    IF FileAt(dir, name) \in stat_fails THEN StatError ELSE ctime[FileAt(dir, name)]

RECURSIVE collectFrom(_, _)
collectFrom(dir, names) ==
    IF names = <<>> THEN <<>>
    ELSE LET filename == Head(names) IN
         (IF IsHtmlName(filename) /\ getctime(dir, filename) # StatError
          THEN << [filename |-> filename, ctime |-> getctime(dir, filename)] >>
          ELSE <<>>) \o collectFrom(dir, Tail(names))
\* HTMLFileProcessor._collect_html_files
_collect_html_files(dir) == collectFrom(dir, listdir(dir))

RECURSIVE insertSorted(_, _)
\* e goes after every entry that is not younger than it (stable)
insertSorted(e, s) ==
    IF s = <<>> THEN <<e>>
    ELSE IF Head(s).ctime <= e.ctime
         THEN <<Head(s)>> \o insertSorted(e, Tail(s))
         ELSE <<e>> \o s

RECURSIVE sortedFrom(_, _)
sortedFrom(done, rest) ==
    IF rest = <<>> THEN done
    ELSE sortedFrom(insertSorted(Head(rest), done), Tail(rest))

\* as if the files were taken in listing order, unsorted
listingOrder(html_files) == html_files
\* HTMLFileProcessor.sort_files_by_creation_date: sorted(..., key=ctime)
sort_files_by_creation_date(html_files) == sortedFrom(<<>>, html_files)

\* the heading read through a path: None when the path cannot be opened
headingAt(dir, name) == IF exists(dir, name) THEN heading[FileAt(dir, name)] ELSE None

\* HTMLFileProcessor.extract_title
extract_title(dir, name) ==
    LET h == headingAt(dir, name) IN
    IF h # None /\ strip(h) # <<>> THEN sanitize(strip(h)) ELSE None

\* `if not new_title`
falsy(t) == t = None \/ t = <<>>

RECURSIVE duplicateLoopSetOnly(_, _, _, _, _)
\* as if the loop tested the names of this run only, not the directory
duplicateLoopSetOnly(new_name, base_new_name, duplicate_suffix, assigned, dir) ==
    IF new_name \in assigned
    THEN LET suffix == duplicate_suffix + 1
             sp == splitext(base_new_name)
         IN  duplicateLoopSetOnly(sp[1] \o <<"_">> \o Str(suffix) \o sp[2],
                                  base_new_name, suffix, assigned, dir)
    ELSE new_name

RECURSIVE duplicateLoop(_, _, _, _, _)
\* the `while new_name in set or os.path.exists(...)` loop
duplicateLoop(new_name, base_new_name, duplicate_suffix, assigned, dir) ==
    IF new_name \in assigned \/ exists(dir, new_name)
    THEN LET suffix == duplicate_suffix + 1
             sp == splitext(base_new_name)
         IN  duplicateLoop(sp[1] \o <<"_">> \o Str(suffix) \o sp[2],
                           base_new_name, suffix, assigned, dir)
    ELSE new_name

\* new_name = f"{new_title}.html" followed by the duplicate loop
resolve(new_title, assigned, dir) ==
    duplicateLoop(new_title \o HtmlExt, new_title \o HtmlExt, 1, assigned, dir)

\* f"{index}. {new_name}"
prefixed(i, new_name) == Str(i) \o <<".", " ">> \o new_name

\* the name the class-based loop hands to os.rename
targetName(new_title, assigned, dir, i) ==
    IF add_index THEN prefixed(i, resolve(new_title, assigned, dir))
    ELSE resolve(new_title, assigned, dir)

\* self.new_filenames_set.add(new_name)
claim(assigned, new_name) == assigned \cup {new_name}

\* os.rename(src, dst): [ok, dir]
os_rename(dir, src, dst) ==
    IF ~exists(dir, src) THEN [ok |-> FALSE, dir |-> dir]
    ELSE LET f == FileAt(dir, src) IN
         IF f \in rename_fails THEN [ok |-> FALSE, dir |-> dir]
         ELSE IF dst = src THEN [ok |-> TRUE, dir |-> dir]
         ELSE IF exists(dir, dst)
              THEN IF posix
                   THEN [ok |-> TRUE,
                         dir |-> [dir EXCEPT ![FileAt(dir, dst)] = Gone, ![f] = dst]]
                   ELSE [ok |-> FALSE, dir |-> dir]
              ELSE [ok |-> TRUE, dir |-> [dir EXCEPT ![f] = dst]]

NoTitleReason == "No <h1 class=\"panel__title\"> found."
RenameErrorReason == "str(e)"

\* as if the append were missing
appendSkippedLost(skipped, original, reason) == skipped

\* as if every skip were recorded under the missing-title reason
appendSkippedOneReason(skipped, original, reason) ==
    Append(skipped, [original |-> original, reason |-> NoTitleReason])

\* self.skipped_files.append({'original': ..., 'reason': ...})
appendSkipped(skipped, original, reason) ==
    Append(skipped, [original |-> original, reason |-> reason])

\* self.renamed_files.append({'original': ..., 'new': ...})
appendRenamed(renamed, original, new) ==
    Append(renamed, [original |-> original, new |-> new])

\* ------------------------------------------------------- class-based run
\* HTMLFileProcessor(directory), FileRenamer(processor, add_index) and the
\* first two statements of generate_new_filenames
C_Start ==
    /\ pc = "start"
    /\ sorted_files' = sort_files_by_creation_date(_collect_html_files(directory))
    /\ index' = 1
    /\ pos' = 1
    /\ pc' = "loop"
    /\ UNCHANGED <<directory, renamed_files, skipped_files, new_filenames_set, log>>
    /\ UNCHANGED <<envVars, procVars, sanVars>>

current == sorted_files[pos]

\* an iteration that ends at `continue`
C_SkipNoTitle ==
    /\ pc = "loop" /\ pos <= Len(sorted_files)
    /\ falsy(extract_title(directory, current.filename))
    /\ skipped_files' = appendSkipped(skipped_files, current.filename, NoTitleReason)
    /\ pos' = pos + 1
    /\ UNCHANGED <<pc, directory, sorted_files, index, renamed_files,
                   new_filenames_set, log>>
    /\ UNCHANGED <<envVars, procVars, sanVars>>

\* the title, the target name and the outcome of os.rename in the iteration
\* that is about to run
new_titleC == extract_title(directory, current.filename)
new_nameC == targetName(new_titleC, new_filenames_set, directory, index)
renameResult == os_rename(directory, current.filename, new_nameC)

\* what an iteration does from `new_nameC = ...` up to the `try`
C_Issue(level) ==
    /\ index' = (IF add_index THEN index + 1 ELSE index)
    /\ new_filenames_set' = claim(new_filenames_set, new_nameC)
    /\ log' = Append(log, [level |-> level, original |-> current.filename,
                           new |-> new_nameC])
    /\ pos' = pos + 1
    /\ UNCHANGED <<pc, sorted_files>>
    /\ UNCHANGED <<envVars, procVars, sanVars>>

\* an iteration whose os.rename succeeds
C_Renamed ==
    /\ pc = "loop" /\ pos <= Len(sorted_files)
    /\ ~falsy(new_titleC)
    /\ renameResult.ok
    /\ directory' = renameResult.dir
    /\ renamed_files' = appendRenamed(renamed_files, current.filename, new_nameC)
    /\ UNCHANGED skipped_files
    /\ C_Issue("INFO")

\* an iteration whose os.rename raises
C_RenameError ==
    /\ pc = "loop" /\ pos <= Len(sorted_files)
    /\ ~falsy(new_titleC)
    /\ ~renameResult.ok
    /\ directory' = renameResult.dir
    /\ skipped_files' = appendSkipped(skipped_files, current.filename, RenameErrorReason)
    /\ UNCHANGED renamed_files
    /\ C_Issue("ERROR")

\* perform_renaming returns (renamed_files, skipped_files)
C_Return ==
    /\ pc = "loop" /\ pos > Len(sorted_files)
    /\ pc' = "done"
    /\ UNCHANGED <<directory, sorted_files, pos, index, renamed_files,
                   skipped_files, new_filenames_set, log>>
    /\ UNCHANGED <<envVars, procVars, sanVars>>

\* ------------------------------------------------------------ initial states
InitialDirs ==
    { d \in [Files -> NamePool \cup {PlainName(f) : f \in Files}] :
        /\ \A f \in Files : d[f] \in NamePool \/ d[f] = PlainName(f)
        /\ \A f, g \in Files : f # g => d[f] # d[g] }

InitEnv ==
    /\ heading \in [Files -> Headings]
    /\ ctime \in {c \in [Files -> Times] : \A f, g \in Files : f # g => c[f] # c[g]}
    /\ stat_fails \in SUBSET Files
    /\ rename_fails \in SUBSET Files
    /\ stat_fails \cap rename_fails = {}
    /\ Cardinality(stat_fails \cup rename_fails) <= MaxTroubled
    /\ add_index \in BOOLEAN
    \* without the index prefix no rename is issued onto an existing name
    \* (the duplicate loop, resp. the procedural existence test, sees to it),
    \* so the platform only matters with the prefix
    /\ posix \in (IF add_index THEN BOOLEAN ELSE {TRUE})
    /\ directory0 \in InitialDirs

InitClass ==
    /\ pc = "start"
    /\ directory = directory0
    /\ sorted_files = <<>>
    /\ pos = 0
    /\ index = 0
    /\ renamed_files = <<>>
    /\ skipped_files = <<>>
    /\ new_filenames_set = {}
    /\ log = <<>>

InitProc ==
    /\ pcP = "start"
    /\ directoryP = directory0
    /\ html_filesP = <<>>
    /\ posP = 0
    /\ indexP = 0
    /\ renamed_filesP = <<>>
    /\ skipped_filesP = <<>>
    /\ new_filenames = <<>>

InitSanIdle == san_in = <<>> /\ san_out = None

Init == InitEnv /\ InitClass /\ InitProc /\ InitSanIdle

Next == C_Start \/ C_SkipNoTitle \/ C_Renamed \/ C_RenameError \/ C_Return

Spec == Init /\ [][Next]_vars


\* --------------------------------------------------------- procedural run
\* get_new_filename
get_new_filename(dir, name) ==
    LET h == headingAt(dir, name) IN
    IF h # None /\ strip(h) # <<>> THEN sanitize(strip(h)) \o HtmlExt ELSE None

\* new_filenames.get(new_name, 0)
dictGet(d, k) == IF k \in DOMAIN d THEN d[k] ELSE 0

\* new_filenames[k] = v
dictPut(d, k, v) == [n \in DOMAIN d \cup {k} |-> IF n = k THEN v ELSE d[n]]

\* the "Handle duplicate filenames" block: the name it settles on
dedupName(new_name, d) ==
    LET sp == splitext(new_name)
        duplicate_count == dictGet(d, new_name)
    IN  IF duplicate_count > 0
        THEN sp[1] \o <<"_">> \o Str(duplicate_count) \o sp[2]
        ELSE new_name

\* the listing, its sort, and the four initialisations before the loop
P_Start ==
    /\ pcP = "start"
    /\ html_filesP' = sort_files_by_creation_date(_collect_html_files(directoryP))
    /\ indexP' = 1
    /\ posP' = 1
    /\ pcP' = "loop"
    /\ UNCHANGED <<directoryP, renamed_filesP, skipped_filesP, new_filenames>>
    /\ UNCHANGED <<envVars, classVars, sanVars>>

currentP == html_filesP[posP]

\* the `else` branch of `if new_name`
P_SkipNoTitle ==
    /\ pcP = "loop" /\ posP <= Len(html_filesP)
    /\ get_new_filename(directoryP, currentP.filename) = None
    /\ skipped_filesP' = Append(skipped_filesP,
                                [original |-> currentP.filename, new |-> None])
    /\ posP' = posP + 1
    /\ UNCHANGED <<pcP, directoryP, html_filesP, indexP, renamed_filesP, new_filenames>>
    /\ UNCHANGED <<envVars, classVars, sanVars>>

\* the names of the iteration that is about to run
title_nameP == get_new_filename(directoryP, currentP.filename)
dedupedP == dedupName(title_nameP, new_filenames)
new_nameP == IF add_index THEN prefixed(indexP, dedupedP) ELSE dedupedP
renameResultP == os_rename(directoryP, currentP.filename, new_nameP)

\* what an iteration with a title does before the existence test
P_Issue ==
    /\ new_filenames' = dictPut(new_filenames, dedupedP,
                                dictGet(new_filenames, title_nameP) + 1)
    /\ indexP' = (IF add_index THEN indexP + 1 ELSE indexP)
    /\ posP' = posP + 1
    /\ UNCHANGED <<pcP, html_filesP>>
    /\ UNCHANGED <<envVars, classVars, sanVars>>

\* "Cannot rename ... because ... already exists. Skipping."
P_SkipExists ==
    /\ pcP = "loop" /\ posP <= Len(html_filesP)
    /\ title_nameP # None
    /\ exists(directoryP, new_nameP)
    /\ skipped_filesP' = Append(skipped_filesP,
                                [original |-> currentP.filename, new |-> new_nameP])
    /\ UNCHANGED <<directoryP, renamed_filesP>>
    /\ P_Issue

P_Renamed ==
    /\ pcP = "loop" /\ posP <= Len(html_filesP)
    /\ title_nameP # None
    /\ ~exists(directoryP, new_nameP)
    /\ renameResultP.ok
    /\ directoryP' = renameResultP.dir
    /\ renamed_filesP' = Append(renamed_filesP,
                                [original |-> currentP.filename, new |-> new_nameP])
    /\ UNCHANGED skipped_filesP
    /\ P_Issue

P_RenameError ==
    /\ pcP = "loop" /\ posP <= Len(html_filesP)
    /\ title_nameP # None
    /\ ~exists(directoryP, new_nameP)
    /\ ~renameResultP.ok
    /\ directoryP' = renameResultP.dir
    /\ skipped_filesP' = Append(skipped_filesP,
                                [original |-> currentP.filename, new |-> new_nameP])
    /\ UNCHANGED renamed_filesP
    /\ P_Issue

\* return renamed_files, skipped_files
P_Return ==
    /\ pcP = "loop" /\ posP > Len(html_filesP)
    /\ pcP' = "done"
    /\ UNCHANGED <<directoryP, html_filesP, posP, indexP, renamed_filesP,
                   skipped_filesP, new_filenames>>
    /\ UNCHANGED <<envVars, classVars, sanVars>>

\* both implementations, each on its own copy of the same directory
NextBoth ==
    \/ C_Start \/ C_SkipNoTitle \/ C_Renamed \/ C_RenameError \/ C_Return
    \/ P_Start \/ P_SkipNoTitle \/ P_SkipExists \/ P_Renamed \/ P_RenameError \/ P_Return

SpecBoth == Init /\ [][NextBoth]_vars

\* ------------------------------------------------- the sanitizer on its own
SanChars == {"A", "_", "?", " ", "\t"}

RECURSIVE StringsUpTo(_)
StringsUpTo(n) ==
    IF n = 0 THEN {<<>>}
    ELSE LET shorter == StringsUpTo(n - 1)
         IN  shorter \cup {Append(t, c) : t \in shorter, c \in SanChars}

\* the input of the documented example
SpecExample == <<"A", ":", "B", " ", " ", "C", "?">>

InitSan ==
    /\ san_in \in StringsUpTo(MaxLen) \cup {SpecExample}
    /\ san_out = None
    /\ heading = [f \in Files |-> None]
    /\ ctime = [f \in Files |-> f]
    /\ stat_fails = {}
    /\ rename_fails = {}
    /\ posix = TRUE
    /\ add_index = FALSE
    /\ directory0 = [f \in Files |-> PlainName(f)]
    /\ InitClass /\ InitProc

\* FilenameSanitizer.sanitize(san_in)
SanitizeCall ==
    /\ san_out = None
    /\ san_out' = sanitize(san_in)
    /\ UNCHANGED <<san_in, envVars, classVars, procVars>>

SpecSan == InitSan /\ [][SanitizeCall]_vars


\* ------------------------------------------------------------------ claims
Range(q) == {q[i] : i \in 1..Len(q)}
Occurrences(q, original) == Cardinality({i \in 1..Len(q) : q[i].original = original})
Last(q) == q[Len(q)]

\* the file an original name stood for before the run, and its creation time
ctime0(name) == ctime[FileAt(directory0, name)]

\* the result of a sanitizer call holds no forbidden and no whitespace
\* character; with d the input after deletion of the forbidden characters,
\* every other character of d is kept in order and every maximal whitespace
\* run of d has become exactly one underscore
RunStart(d, i) == d[i] \in Whitespace /\ (i = 1 \/ d[i - 1] \notin Whitespace)
OutPos(d, i) ==
    Cardinality({j \in 1..i : d[j] \notin Whitespace \/ RunStart(d, j)})
SanitizerShape ==
    san_out # None =>
        LET d == SelectSeq(san_in, LAMBDA c : c \notin INVALID_FILENAME_CHARS) IN
        /\ \A i \in 1..Len(san_out) :
              san_out[i] \notin INVALID_FILENAME_CHARS \cup Whitespace
        /\ Len(san_out) = (IF d = <<>> THEN 0 ELSE OutPos(d, Len(d)))
        /\ \A i \in 1..Len(d) :
              /\ d[i] \notin Whitespace => san_out[OutPos(d, i)] = d[i]
              /\ RunStart(d, i) => san_out[OutPos(d, i)] = "_"

\* C7 as stated: the shape above, and 'A:B  C?' maps to 'A_B_C'
C7_AsStated ==
    /\ SanitizerShape
    /\ (san_in = <<"A", ":", "B", " ", " ", "C", "?">>
          => san_out \in {None, <<"A", "_", "B", "_", "C">>})

\* C7 (amended): the shape above, and 'A:B  C?' maps to 'AB_C', the colon
\* being deleted and not replaced
C7_SanitizerOutput ==
    /\ SanitizerShape
    /\ (san_in = <<"A", ":", "B", " ", " ", "C", "?">>
          => san_out \in {None, <<"A", "B", "_", "C">>})
C7_Witness ==
    /\ san_in = <<"A", ":", "B", " ", " ", "C", "?">>
    /\ san_out = <<"A", "B", "_", "C">>

\* C2: when perform_renaming has returned, every scanned file appears exactly
\* once across renamed_files and skipped_files, and the scanned files are
\* those the directory scan returned
C2_ExactlyOneOutcome ==
    pc = "done" =>
        /\ Range(sorted_files) = Range(_collect_html_files(directory0))
        /\ Len(sorted_files) = Len(_collect_html_files(directory0))
        /\ \A e \in Range(sorted_files) :
              Occurrences(renamed_files, e.filename)
                + Occurrences(skipped_files, e.filename) = 1
        /\ Len(renamed_files) + Len(skipped_files) = Len(sorted_files)
C2_Witness ==
    /\ pc = "done"
    /\ Len(renamed_files) = 1
    /\ Len(skipped_files) = 1

\* C4: with the index option, the k-th rename issued bears the prefix "k. ",
\* the file it is issued for is the k-th oldest of the files that reached the
\* resolver, whatever the listing order, and a file skipped for a missing
\* title consumes no index
HasPrefix(name, k) ==
    /\ Len(name) >= Len(Str(k)) + 2
    /\ SubSeq(name, 1, Len(Str(k)) + 2) = Str(k) \o <<".", " ">>
C4_IndexFollowsCreation ==
    (add_index /\ pc # "start") =>
        /\ index = Len(log) + 1
        /\ \A k \in 1..Len(log) :
              /\ HasPrefix(log[k].new, k)
              /\ k = 1 + Cardinality({j \in 1..Len(log) :
                                       ctime0(log[j].original) < ctime0(log[k].original)})
        /\ \A i \in 1..Len(skipped_files) :
              skipped_files[i].reason = NoTitleReason =>
                 \A k \in 1..Len(log) : log[k].original # skipped_files[i].original
C4_Witness ==
    /\ add_index /\ pc = "done"
    /\ ctime[1] > ctime[2]
    /\ Len(log) = 1
    /\ log[1].original = directory0[1]
    /\ HasPrefix(log[1].new, 1)
    /\ Len(skipped_files) = 1
    /\ skipped_files[1] = [original |-> directory0[2], reason |-> NoTitleReason]

\* C5: an iteration whose rename fails appends the file to skipped_files with
\* the error as reason, leaves renamed_files and the directory as they were
\* and moves on to the next file; every step of the loop moves to the next
\* file or returns, so that the run ends after one iteration per scanned file,
\* and at the return every scanned file has its outcome
C5_FailedStep ==
    (Len(log') = Len(log) + 1 /\ Last(log').level = "ERROR") =>
        /\ skipped_files' = Append(skipped_files,
               [original |-> Last(log').original, reason |-> RenameErrorReason])
        /\ Last(log').original = sorted_files[pos].filename
        /\ renamed_files' = renamed_files
        /\ directory' = directory
        /\ pos' = pos + 1
        /\ pc' = "loop"
C5_Progress ==
    /\ pc = "loop" => (pc' = "loop" /\ pos' = pos + 1) \/ (pc' = "done" /\ pos' = pos)
    /\ pc = "loop" => sorted_files' = sorted_files
    /\ pc = "done" => pc' = "done"
free(name) == name \notin new_filenames_set /\ ~exists(directory, name)

\* C1: every rename is issued onto a name that no other file of the directory
\* bears and that this run has not assigned before, and no file is ever lost
\* (a rename of a file onto its own name is not held against the claim)
C1_Step ==
    Len(log') = Len(log) + 1 =>
        \/ Last(log').new = Last(log').original
        \/ (~exists(directory, Last(log').new)
              /\ Last(log').new \notin new_filenames_set)
C1_NoTargetTaken ==
    /\ [][C1_Step]_vars
    /\ [](\A f \in Files : directory[f] # Gone)

\* C3: the name resolved for a title T is T.html when that is free, and
\* otherwise T_k.html for the least k >= 2 for which it is free
suffixedName(T, k) == T \o <<"_">> \o Str(k) \o HtmlExt
expectedName(T) ==
    IF free(T \o HtmlExt) THEN T \o HtmlExt
    ELSE LET ks == 2..(NumFiles + Cardinality(new_filenames_set) + 2)
             k == CHOOSE i \in ks : /\ free(suffixedName(T, i))
                                    /\ \A j \in ks : j < i => ~free(suffixedName(T, j))
         IN  suffixedName(T, k)
C3_Step ==
    Len(log') = Len(log) + 1 =>
        LET T == extract_title(directory, sorted_files[pos].filename) IN
        Last(log').new = (IF add_index THEN prefixed(index, expectedName(T))
                          ELSE expectedName(T))
C3_LeastFreeSuffix == [][C3_Step]_vars

\* C8: the name resolved for a file, without its index prefix, is in
\* new_filenames_set from the moment its rename is attempted, so that no two
\* files of a run resolve to the same un-prefixed name
unprefixed(k) ==
    IF add_index THEN SubSeq(log[k].new, Len(Str(k)) + 3, Len(log[k].new))
    ELSE log[k].new
C8_ResolvedNameIsClaimed ==
    /\ \A k \in 1..Len(log) : unprefixed(k) \in new_filenames_set
    /\ \A j, k \in 1..Len(log) : j < k => unprefixed(j) # unprefixed(k)

\* C10: an iteration skips its file for a missing title exactly when the
\* heading is absent, unreadable or empty once stripped, and such a skip
\* leaves the directory, the assigned names and the running index alone
C10_Step ==
    (pc = "loop" /\ pos' = pos + 1) =>
        LET h == headingAt(directory, sorted_files[pos].filename)
            noHeading == h = None \/ strip(h) = <<>>
            skippedNoTitle ==
                skipped_files' = Append(skipped_files,
                    [original |-> sorted_files[pos].filename, reason |-> NoTitleReason])
        IN  /\ skippedNoTitle <=> noHeading
            /\ skippedNoTitle => /\ directory' = directory
                                 /\ new_filenames_set' = new_filenames_set
                                 /\ index' = index
C10_SkipIffNoHeading == [][C10_Step]_vars

\* C6: started on the same directory with the same option, the two
\* implementations leave the same names on disk and report the same renamed
\* and skipped files
originalsOf(q) == [i \in 1..Len(q) |-> q[i].original]
C6_SameOutcome ==
    (pc = "done" /\ pcP = "done") =>
        /\ directory = directoryP
        /\ renamed_files = renamed_filesP
        /\ originalsOf(skipped_files) = originalsOf(skipped_filesP)

\* every .html file of the directory is named T.html for its own title T
OwnNames ==
    \A f \in Files :
        /\ ~falsy(extract_title(directory0, directory0[f]))
        /\ directory0[f] = extract_title(directory0, directory0[f]) \o HtmlExt

secondName(name) == splitext(name)[1] \o <<"_", "2">> \o splitext(name)[2]
=============================================================================
